---------------------------- MODULE Spec2Model ----------------------------
(***************************************************************************)
(* Model of the SMS expense viewer (src/App.tsx).                          *)
(*                                                                         *)
(* JavaScript strings are modelled as sequences of one-character strings,  *)
(* so that includes, toLowerCase and the amount regular expression are     *)
(* computed character by character.  The JavaScript value undefined and    *)
(* the number NaN have their own representations below.                    *)
(***************************************************************************)
EXTENDS Integers, Sequences, FiniteSets, TLC

(***************************************************************************)
(* Bounds of the model.                                                    *)
(***************************************************************************)
MaxBatch == 2
MaxInFlight == 2
MaxSpaces == 2
MaxView == 2
Now == 200000000

(***************************************************************************)
(* JavaScript values.                                                      *)
(***************************************************************************)
\* a property that is absent from a parsed JSON object
Undefined == <<"undefined">>

\* a JavaScript number: an integer or NaN
Num(n) == [nan |-> FALSE, val |-> n]
NaN == [nan |-> TRUE, val |-> 0]

\* ToNumber applied to the date_sent property of a parsed message
ToNumber(v) == IF v.parseable THEN Num(v.ms) ELSE NaN

(***************************************************************************)
(* String primitives.                                                      *)
(***************************************************************************)
UpperCase == << "A","B","C","D","E","F","G","H","I","J","K","L","M",
                "N","O","P","Q","R","S","T","U","V","W","X","Y","Z" >>
LowerCase == << "a","b","c","d","e","f","g","h","i","j","k","l","m",
                "n","o","p","q","r","s","t","u","v","w","x","y","z" >>

toLowerCaseChar(c) ==
    IF \E i \in 1..26 : UpperCase[i] = c
    THEN LowerCase[CHOOSE i \in 1..26 : UpperCase[i] = c]
    ELSE c

\* String.prototype.toLowerCase
toLowerCase(s) == [i \in 1..Len(s) |-> toLowerCaseChar(s[i])]

\* String.prototype.includes
includes(s, pat) ==
    \E i \in 1..(Len(s) - Len(pat) + 1) : SubSeq(s, i, i + Len(pat) - 1) = pat

Digits == {"0","1","2","3","4","5","6","7","8","9"}
WhiteSpace == {" ", "\t", "\n"}

\* \d at position i of s
isDigitAt(s, i) == i >= 1 /\ i <= Len(s) /\ s[i] \in Digits
\* \s at position i of s
isSpaceAt(s, i) == i >= 1 /\ i <= Len(s) /\ s[i] \in WhiteSpace

(***************************************************************************)
(* Literals of the program.                                                *)
(***************************************************************************)
debited == <<"d","e","b","i","t","e","d">>
credited == <<"c","r","e","d","i","t","e","d">>
grocery == <<"g","r","o","c","e","r","y">>
dining == <<"d","i","n","i","n","g">>
shopping == <<"s","h","o","p","p","i","n","g">>
Unknown == <<"U","n","k","n","o","w","n">>
NotAvailable == <<"N","/","A">>
INR == <<"I","N","R">>
Rs == <<"R","s">>

(***************************************************************************)
(* The amount pattern /(?:INR|Rs\.?)\s?(\d+(?:,\d{3})*(?:\.\d+)?)/i,       *)
(* evaluated as the backtracking matcher evaluates it: start positions     *)
(* from left to right, alternatives in order, quantifiers greedy.          *)
(***************************************************************************)
\* a literal matched at position i under the i flag
matchLiteralAt(s, i, lit) ==
    /\ i >= 1
    /\ i + Len(lit) - 1 <= Len(s)
    /\ \A k \in 1..Len(lit) : toLowerCaseChar(s[i + k - 1]) = toLowerCaseChar(lit[k])

\* the marker with the period allowed after either alternative
markerEndsAnyPeriod(s, i) ==
    LET n == IF matchLiteralAt(s, i, INR) THEN 3 ELSE IF matchLiteralAt(s, i, Rs) THEN 2 ELSE 0
    IN  IF n = 0 THEN <<>>
        ELSE (IF i + n <= Len(s) /\ s[i + n] = "." THEN <<i + n + 1>> ELSE <<>>) \o <<i + n>>

\* (?:INR|Rs\.?) at i: the positions after the marker, in the order tried
markerEnds(s, i) ==
    (IF matchLiteralAt(s, i, INR) THEN <<i + 3>> ELSE <<>>)
    \o (IF matchLiteralAt(s, i, Rs)
        THEN (IF i + 2 <= Len(s) /\ s[i + 2] = "." THEN <<i + 3>> ELSE <<>>) \o <<i + 2>>
        ELSE <<>>)

\* \s? at j: the positions after it, in the order tried
spaceEnds(s, j) == (IF isSpaceAt(s, j) THEN <<j + 1>> ELSE <<>>) \o <<j>>

\* \d+ from k (a digit is at k): the position after the longest run of digits
RECURSIVE digitsEnd(_, _)
digitsEnd(s, k) == IF isDigitAt(s, k) THEN digitsEnd(s, k + 1) ELSE k

\* (?:,\d{3})* from k
RECURSIVE groupsEnd(_, _)
groupsEnd(s, k) ==
    IF /\ k <= Len(s) /\ s[k] = ","
       /\ isDigitAt(s, k + 1) /\ isDigitAt(s, k + 2) /\ isDigitAt(s, k + 3)
    THEN groupsEnd(s, k + 4)
    ELSE k

\* (?:\.\d+)? from k
fractionEnd(s, k) ==
    IF k <= Len(s) /\ s[k] = "." /\ isDigitAt(s, k + 1) THEN digitsEnd(s, k + 1) ELSE k

\* the capture group from k; nothing follows the group in the pattern, so
\* the greedy choice of every quantifier is the one the matcher returns
captureEnd(s, k) == fractionEnd(s, groupsEnd(s, digitsEnd(s, k)))

\* the positions at which the capture group is attempted for a start i,
\* in the order the matcher tries them
captureStarts(s, i) ==
    LET m == markerEnds(s, i)
        RECURSIVE flat(_)
        flat(n) == IF n > Len(m) THEN <<>> ELSE spaceEnds(s, m[n]) \o flat(n + 1)
    IN  flat(1)

\* the first attempt for start i that succeeds; 0 when the start fails
captureStartAt(s, i) ==
    LET c == captureStarts(s, i)
        ok == {n \in 1..Len(c) : isDigitAt(s, c[n])}
    IN  IF ok = {} THEN 0 ELSE c[CHOOSE n \in ok : \A o \in ok : n <= o]

\* body.match(pattern): the captured group of the leftmost match, or
\* Undefined when match returns null
amountMatch(s) ==
    LET starts == {i \in 1..Len(s) : captureStartAt(s, i) # 0}
    IN  IF starts = {} THEN Undefined
        ELSE LET i == CHOOSE x \in starts : \A y \in starts : x <= y
                 k == captureStartAt(s, i)
             IN  SubSeq(s, k, captureEnd(s, k) - 1)

(***************************************************************************)
(* parseMessageDetails and its helpers.                                    *)
(***************************************************************************)
extractCategory(messageBody) ==
    IF includes(toLowerCase(messageBody), grocery) THEN "Grocery"
    ELSE IF includes(toLowerCase(messageBody), dining) THEN "Dining"
    ELSE IF includes(toLowerCase(messageBody), shopping) THEN "Shopping"
    ELSE "undefined"

\* Math.floor(a / b) on JavaScript numbers, b a positive integer
floorDiv(a, b) == IF a.nan THEN NaN ELSE Num(a.val \div b)
\* a < b on JavaScript numbers: false when a is NaN
lessThan(a, b) == ~a.nan /\ a.val < b

calculateTimeAgo(dateSent) ==
    LET diff == IF dateSent.nan THEN NaN ELSE Num(Now - dateSent.val)
        diffInMinutes == floorDiv(diff, 1000 * 60)
        diffInHours == floorDiv(diffInMinutes, 60)
    IN  IF lessThan(diffInMinutes, 60) THEN [n |-> diffInMinutes, unit |-> "minute(s) ago"]
        ELSE IF lessThan(diffInHours, 24) THEN [n |-> diffInHours, unit |-> "hour(s) ago"]
        ELSE [n |-> floorDiv(diffInHours, 24), unit |-> "day(s) ago"]

\* new Date(date_sent).toLocaleDateString(): the calendar day, or
\* "Invalid Date" (nan) for a time value that is NaN
toLocaleDateString(dateSent) == floorDiv(dateSent, 24 * 60 * 60 * 1000)

\* the sender without the default
senderOfNoDefault(address) == address

\* message.address || 'Unknown'
senderOf(address) == IF address = Undefined \/ address = <<>> THEN Unknown ELSE address

\* the direction decided without lower-casing the body
typeOfCaseSensitive(body) == IF includes(body, debited) THEN "debited" ELSE "credited"

\* message.body.toLowerCase().includes('debited') ? 'debited' : 'credited'
typeOf(body) == IF includes(toLowerCase(body), debited) THEN "debited" ELSE "credited"

\* amountMatch ? amountMatch[1] : 'N/A'
amountOf(body) == IF amountMatch(body) # Undefined THEN amountMatch(body) ELSE NotAvailable

parseMessageDetails(message) ==
    [ id |-> message._id,
      body |-> message.body,
      sender |-> senderOf(message.address),
      amount |-> amountOf(message.body),
      date |-> toLocaleDateString(ToNumber(message.date_sent)),
      timeAgo |-> calculateTimeAgo(ToNumber(message.date_sent)),
      type |-> typeOf(message.body),
      category |-> extractCategory(message.body) ]

\* the filter predicate on the lower-cased body
hasKeywordAnyCase(msg) ==
    includes(toLowerCase(msg.body), debited) \/ includes(toLowerCase(msg.body), credited)

\* the predicate of the filter over the fetched list
hasKeyword(msg) == includes(msg.body, debited) \/ includes(msg.body, credited)

\* msg.body.includes on a message without a body raises a TypeError
raisesTypeError(list) == \E i \in 1..Len(list) : list[i].body = Undefined

RECURSIVE filterKeyword(_)
filterKeyword(list) ==
    IF list = <<>> THEN <<>>
    ELSE (IF hasKeyword(Head(list)) THEN <<Head(list)>> ELSE <<>>)
         \o filterKeyword(Tail(list))

\* JSON.parse(smsList).filter(...).map(parseMessageDetails)
parsedMessages(list) ==
    LET kept == filterKeyword(list)
    IN  [j \in 1..Len(kept) |-> parseMessageDetails(kept[j])]

(***************************************************************************)
(* The displayed list.                                                     *)
(***************************************************************************)
byType(f, msg) == IF f = "all" THEN TRUE ELSE msg.type = f

\* the search predicate on the body alone
bySearchBodyOnly(q, msg) == includes(toLowerCase(msg.body), toLowerCase(q))

bySearch(q, msg) ==
    LET query == toLowerCase(q)
    IN  includes(toLowerCase(msg.body), query) \/ includes(toLowerCase(msg.sender), query)

RECURSIVE filterByType(_, _)
filterByType(f, list) ==
    IF list = <<>> THEN <<>>
    ELSE (IF byType(f, Head(list)) THEN <<Head(list)>> ELSE <<>>)
         \o filterByType(f, Tail(list))

RECURSIVE filterBySearch(_, _)
filterBySearch(q, list) ==
    IF list = <<>> THEN <<>>
    ELSE (IF bySearch(q, Head(list)) THEN <<Head(list)>> ELSE <<>>)
         \o filterBySearch(q, Tail(list))

filteredMessages(msgs, f, q) == filterBySearch(q, filterByType(f, msgs))

(***************************************************************************)
(* Inputs.                                                                 *)
(***************************************************************************)
\* the date_sent property of a parsed message
DateSent(ms) == [parseable |-> TRUE, ms |-> ms]
Unparseable == [parseable |-> FALSE, ms |-> 0]

\* "Rs.500 debited from a/c"
BodyDebit ==
    <<"R","s",".","5","0","0"," ","d","e","b","i","t","e","d"," ","f","r","o","m"," ","a","/","c">>
\* "INR 7 credited Debited"
BodyBoth ==
    <<"I","N","R"," ","7"," ","c","r","e","d","i","t","e","d"," ","D","e","b","i","t","e","d">>
\* "credited 9 dining grocery"
BodyCredit ==
    <<"c","r","e","d","i","t","e","d"," ","9"," ","d","i","n","i","n","g"," ",
      "g","r","o","c","e","r","y">>
\* "Debited Rs 5"
BodyCapital == <<"D","e","b","i","t","e","d"," ","R","s"," ","5">>
\* "hello bank"
BodyPlain == <<"h","e","l","l","o"," ","b","a","n","k">>
\* "BANK"
Bank == <<"B","A","N","K">>

Bodies == {BodyDebit, BodyBoth, BodyCredit, BodyCapital, BodyPlain, Undefined}
Addresses == {Bank, Undefined}
DateSents == {DateSent(Now - 120000), Unparseable}

Sms(i, a, b, d) == [_id |-> i, address |-> a, body |-> b, date_sent |-> d]

\* the lists of at most n messages over the given properties, the i-th
\* with _id i
RECURSIVE ListsUpTo(_, _, _, _)
ListsUpTo(n, as, bs, ds) ==
    IF n = 0 THEN {<<>>}
    ELSE LET shorter == ListsUpTo(n - 1, as, bs, ds)
         IN  shorter \cup
             {Append(l, Sms(n, a, b, d)) :
                 l \in {x \in shorter : Len(x) = n - 1},
                 a \in as, b \in bs, d \in ds}

\* the bodies on which the amount pattern is exercised:
\* lead, marker, period, whitespace, number, rest
Leads == {<<>>, <<"x">>, <<"R","s"," ","7"," ">>, <<"I","N","R",".","3"," ">>}
Markers == {<<>>, <<"R","s">>, <<"r","S">>, <<"I","N","R">>, <<"i","n","r">>, <<"R">>}
Periods == {<<>>, <<".">>}
Spaces == {[i \in 1..n |-> " "] : n \in 0..MaxSpaces}
Numbers == {<<>>, <<"5","0","0">>, <<"1",",","2","3","4",".","5","0">>,
            <<"1",",","2","3","4","5">>, <<"1","2",",","3","4",".">>,
            <<"1","2","3","4",",","5","6","7",",","8","9","0",".","1",".","2">>}
Rests == {<<" ","d","e","b","i","t","e","d">>,
          <<" ","d","e","b","i","t","e","d"," ","f","r","o","m"," ","a","/","c">>,
          <<" ","c","r","e","d","i","t","e","d">>}
AmountBodies ==
    {l \o m \o p \o s \o n \o r :
        l \in Leads, m \in Markers, p \in Periods, s \in Spaces, n \in Numbers, r \in Rests}

\* "Rs. 1,234.50 debited"
BodyExample ==
    <<"R","s","."," ","1",",","2","3","4",".","5","0"," ","d","e","b","i","t","e","d">>

\* what the message source delivers to the classifier
ClassifyInputs ==
    ListsUpTo(MaxBatch, Addresses, Bodies, DateSents)
    \cup {<<Sms(1, Bank, b, DateSent(Now - 120000))>> : b \in AmountBodies}

\* what the message source delivers when the view is exercised
ViewInputs ==
    ListsUpTo(MaxView, Addresses, {BodyDebit, BodyBoth, BodyCredit}, {DateSent(Now - 120000)})

\* what the message source delivers to the running application
SmsLists ==
    { <<>>,
      <<Sms(1, Bank, BodyDebit, DateSent(Now - 120000))>>,
      <<Sms(1, Bank, BodyPlain, DateSent(Now - 120000)),
        Sms(2, Undefined, BodyCredit, Unparseable)>>,
      <<Sms(1, Bank, Undefined, DateSent(Now - 120000))>> }

Filters == {"all", "credited", "debited"}
Queries == {<<>>, <<"b","a","n","k">>, <<"D","E","B">>}

(***************************************************************************)
(* State of the component.                                                 *)
(***************************************************************************)
VARIABLES
    mounted,            \* the component is mounted
    messages,           \* useState<SmsMessage[]>
    loading,            \* useState<boolean>
    filter,             \* useState<'all' | 'credited' | 'debited'>
    searchQuery,        \* useState<string>
    permissionGranted,  \* useState<boolean | null>: "null", "true", "false"
    refreshInterval,    \* useState<NodeJS.Timeout | null>: a timer id, 0 for null
    modalVisible,       \* useState<boolean>
    effectDeps,         \* the dependency the last run of the effect saw
    cleanup,            \* the timer id the pending effect cleanup clears
    intervals,          \* the active timers with the value their callback closes over
    pendingPermission,  \* permission requests not answered yet
    inFlight,           \* SmsAndroid.list calls whose callback has not run
    smsList,            \* the list handed to the success callback
    raised,             \* the last handler ended with an uncaught exception
    event               \* the last handler that ran

vars == << mounted, messages, loading, filter, searchQuery, permissionGranted,
           refreshInterval, modalVisible, effectDeps, cleanup, intervals,
           pendingPermission, inFlight, smsList, raised, event >>

\* the state after the first render, before the effect has run
Init ==
    /\ mounted = TRUE
    /\ messages = <<>>
    /\ loading = FALSE
    /\ filter = "all"
    /\ searchQuery = <<>>
    /\ permissionGranted = "null"
    /\ refreshInterval = 0
    /\ modalVisible = FALSE
    /\ effectDeps = "none"
    /\ cleanup = 0
    /\ intervals = {}
    /\ pendingPermission = 0
    /\ inFlight = 0
    /\ smsList = <<>>
    /\ raised = FALSE
    /\ event = "none"

\* a state setter of an unmounted component changes nothing
setState(old, new) == IF mounted THEN new ELSE old

\* clearInterval(id)
clearInterval(timers, id) == {t \in timers : t.id # id}

\* a cleanup that leaves the timer running
runCleanupKeepsTimer(timers) == timers

\* the cleanup function returned by the effect
runCleanup(timers) == IF cleanup # 0 THEN clearInterval(timers, cleanup) ELSE timers

\* setInterval: an id no active timer has
newTimerId(timers) ==
    CHOOSE n \in 1..(Cardinality(timers) + 1) : \A t \in timers : t.id # n

\* fetchSmsMessages: setLoading(true) and the call of SmsAndroid.list
fetchSmsMessages ==
    /\ inFlight < MaxInFlight
    /\ loading' = setState(loading, TRUE)
    /\ inFlight' = inFlight + 1

\* useEffect(..., [permissionGranted]): runs after the first render and
\* after every render in which permissionGranted changed
RunEffect ==
    /\ mounted
    /\ effectDeps # permissionGranted
    /\ LET cleared == runCleanup(intervals)
           interval == newTimerId(cleared)
       IN  /\ intervals' = cleared \cup
                  {[id |-> interval, permissionGranted |-> permissionGranted]}
           /\ refreshInterval' = interval
           /\ cleanup' = interval
    /\ pendingPermission' = pendingPermission + 1
    /\ effectDeps' = permissionGranted
    /\ raised' = FALSE
    /\ event' = "effect"
    /\ UNCHANGED << mounted, messages, loading, filter, searchQuery,
                    permissionGranted, modalVisible, inFlight, smsList >>

\* the answer to PermissionsAndroid.request, through requestSmsPermission
\* and the then-handler of the effect
PermissionResult(result) ==
    /\ pendingPermission > 0
    /\ pendingPermission' = pendingPermission - 1
    /\ modalVisible' = IF result = "error" THEN modalVisible ELSE setState(modalVisible, FALSE)
    /\ LET permission == (result = "granted")
       IN  /\ permissionGranted' = setState(permissionGranted, IF permission THEN "true" ELSE "false")
           /\ IF permission THEN fetchSmsMessages ELSE UNCHANGED << loading, inFlight >>
    /\ raised' = FALSE
    /\ event' = "permission"
    /\ UNCHANGED << mounted, messages, filter, searchQuery, refreshInterval,
                    effectDeps, cleanup, intervals, smsList >>

\* the callback of setInterval
Tick(t) ==
    /\ t \in intervals
    /\ IF t.permissionGranted = "true" THEN fetchSmsMessages ELSE UNCHANGED << loading, inFlight >>
    /\ raised' = FALSE
    /\ event' = "tick"
    /\ UNCHANGED << mounted, messages, filter, searchQuery, permissionGranted,
                    refreshInterval, modalVisible, effectDeps, cleanup, intervals,
                    pendingPermission, smsList >>

\* the buttons "View All Expenses" and "Refresh Messages"
RequestRefresh ==
    /\ mounted
    /\ fetchSmsMessages
    /\ raised' = FALSE
    /\ event' = "refresh"
    /\ UNCHANGED << mounted, messages, filter, searchQuery, permissionGranted,
                    refreshInterval, modalVisible, effectDeps, cleanup, intervals,
                    pendingPermission, smsList >>

\* a failure callback that also empties the collection
FetchFailClearsMessages ==
    /\ inFlight > 0
    /\ inFlight' = inFlight - 1
    /\ loading' = setState(loading, FALSE)
    /\ messages' = setState(messages, <<>>)
    /\ raised' = FALSE
    /\ event' = "fetchFail"
    /\ UNCHANGED << mounted, filter, searchQuery, permissionGranted,
                    refreshInterval, modalVisible, effectDeps, cleanup, intervals,
                    pendingPermission, smsList >>

\* the failure callback of SmsAndroid.list
FetchFail ==
    /\ inFlight > 0
    /\ inFlight' = inFlight - 1
    /\ loading' = setState(loading, FALSE)
    /\ raised' = FALSE
    /\ event' = "fetchFail"
    /\ UNCHANGED << mounted, messages, filter, searchQuery, permissionGranted,
                    refreshInterval, modalVisible, effectDeps, cleanup, intervals,
                    pendingPermission, smsList >>

\* the success callback of SmsAndroid.list
FetchSuccess(list) ==
    /\ inFlight > 0
    /\ inFlight' = inFlight - 1
    /\ smsList' = list
    /\ IF raisesTypeError(list)
       THEN /\ raised' = TRUE
            /\ UNCHANGED << messages, loading >>
       ELSE /\ raised' = FALSE
            /\ messages' = setState(messages, parsedMessages(list))
            /\ loading' = setState(loading, FALSE)
    /\ event' = "fetchSuccess"
    /\ UNCHANGED << mounted, filter, searchQuery, permissionGranted,
                    refreshInterval, modalVisible, effectDeps, cleanup, intervals,
                    pendingPermission >>

\* the filter buttons
SetFilter(f) ==
    /\ mounted
    /\ filter' = f
    /\ raised' = FALSE
    /\ event' = "setFilter"
    /\ UNCHANGED << mounted, messages, loading, searchQuery, permissionGranted,
                    refreshInterval, modalVisible, effectDeps, cleanup, intervals,
                    pendingPermission, inFlight, smsList >>

\* the search box
SetSearchQuery(q) ==
    /\ mounted
    /\ searchQuery' = q
    /\ raised' = FALSE
    /\ event' = "setSearchQuery"
    /\ UNCHANGED << mounted, messages, loading, filter, permissionGranted,
                    refreshInterval, modalVisible, effectDeps, cleanup, intervals,
                    pendingPermission, inFlight, smsList >>

\* the component is torn down: the cleanup of the effect runs
Unmount ==
    /\ mounted
    /\ mounted' = FALSE
    /\ intervals' = runCleanup(intervals)
    /\ cleanup' = 0
    /\ raised' = FALSE
    /\ event' = "unmount"
    /\ UNCHANGED << messages, loading, filter, searchQuery, permissionGranted,
                    refreshInterval, modalVisible, effectDeps, pendingPermission,
                    inFlight, smsList >>

PermissionResults == {"granted", "denied", "never_ask_again", "error"}

Next ==
    \/ RunEffect
    \/ \E result \in PermissionResults : PermissionResult(result)
    \/ \E t \in intervals : Tick(t)
    \/ RequestRefresh
    \/ FetchFail
    \/ \E list \in SmsLists : FetchSuccess(list)
    \/ \E f \in Filters : SetFilter(f)
    \/ \E q \in Queries : SetSearchQuery(q)
    \/ Unmount

Spec == Init /\ [][Next]_vars

(***************************************************************************)
(* The classifier and the view on their own: a fetch is in flight and the  *)
(* message source is about to deliver smsList.                             *)
(***************************************************************************)
InitClassify ==
    /\ mounted = TRUE
    /\ messages = <<>>
    /\ loading = TRUE
    /\ filter = "all"
    /\ searchQuery = <<>>
    /\ permissionGranted = "true"
    /\ refreshInterval = 1
    /\ modalVisible = FALSE
    /\ effectDeps = "true"
    /\ cleanup = 1
    /\ intervals = {[id |-> 1, permissionGranted |-> "true"]}
    /\ pendingPermission = 0
    /\ inFlight = 1
    /\ smsList \in ClassifyInputs
    /\ raised = FALSE
    /\ event = "refresh"

Deliver == FetchSuccess(smsList)

NextClassify == Deliver

SpecClassify == InitClassify /\ [][NextClassify]_vars

(***************************************************************************)
(* The view on its own: the same, with the user changing the direction     *)
(* filter and the search text.                                             *)
(***************************************************************************)
InitView ==
    /\ mounted = TRUE
    /\ messages = <<>>
    /\ loading = TRUE
    /\ filter = "all"
    /\ searchQuery = <<>>
    /\ permissionGranted = "true"
    /\ refreshInterval = 1
    /\ modalVisible = FALSE
    /\ effectDeps = "true"
    /\ cleanup = 1
    /\ intervals = {[id |-> 1, permissionGranted |-> "true"]}
    /\ pendingPermission = 0
    /\ inFlight = 1
    /\ smsList \in ViewInputs
    /\ raised = FALSE
    /\ event = "refresh"

NextView ==
    \/ Deliver
    \/ \E f \in Filters : SetFilter(f)
    \/ \E q \in Queries : SetSearchQuery(q)

SpecView == InitView /\ [][NextView]_vars

(***************************************************************************)
(* Vocabulary of the properties, stated position by position.              *)
(***************************************************************************)
\* c and d are the same character up to letter case
SameLetter(c, d) ==
    c = d \/ \E n \in 1..26 : {c, d} = {UpperCase[n], LowerCase[n]}

\* pat occurs in s, character for character
Occurs(pat, s) ==
    \E i \in 1..(Len(s) + 1) :
        \A k \in 1..Len(pat) : i + k - 1 <= Len(s) /\ s[i + k - 1] = pat[k]

\* pat occurs in s up to letter case
OccursAnyCase(pat, s) ==
    \E i \in 1..(Len(s) + 1) :
        \A k \in 1..Len(pat) : i + k - 1 <= Len(s) /\ SameLetter(s[i + k - 1], pat[k])

\* the j-th smallest element of a set of positions
Nth(set, j) == CHOOSE i \in set : Cardinality({k \in set : k <= i}) = j

\* every record of the list has a body
AllHaveBody(list) == \A i \in 1..Len(list) : list[i].body # Undefined

\* the positions of the raw messages with a keyword in their body
KeywordPositions(list) ==
    {i \in 1..Len(list) : Occurs(debited, list[i].body) \/ Occurs(credited, list[i].body)}

(***************************************************************************)
(* C1: after the success callback has classified a list whose records all  *)
(* have a body, the collection holds one record for exactly the raw        *)
(* messages whose body contains "debited" or "credited" in that very case, *)
(* in the order of the list, and is no longer than the list.               *)
(***************************************************************************)
C1_ClassifyKeepsKeywordMessages ==
    (event = "fetchSuccess" /\ AllHaveBody(smsList)) =>
        LET kept == KeywordPositions(smsList)
        IN  /\ ~raised
            /\ Len(messages) = Cardinality(kept)
            /\ Len(messages) <= Len(smsList)
            /\ \A j \in 1..Len(messages) :
                   /\ messages[j].id = smsList[Nth(kept, j)]._id
                   /\ messages[j].body = smsList[Nth(kept, j)].body

\* a list of two: the first message was dropped, the second kept
C1_Witness ==
    /\ event = "fetchSuccess"
    /\ Len(smsList) = 2
    /\ Len(messages) = 1
    /\ messages[1].id = 2
    /\ OccursAnyCase(debited, smsList[1].body)

(***************************************************************************)
(* C2: every record of the collection has direction debited exactly when   *)
(* its body contains "debited" in any letter case, and credited otherwise; *)
(* a body with "credited" and "Debited" is debited.                        *)
(***************************************************************************)
C2_DirectionByDebitedAnyCase ==
    event = "fetchSuccess" =>
        \A j \in 1..Len(messages) :
            /\ messages[j].type \in {"debited", "credited"}
            /\ (messages[j].type = "debited") <=> OccursAnyCase(debited, messages[j].body)
            /\ ( /\ Occurs(credited, messages[j].body)
                 /\ Occurs(<<"D","e","b","i","t","e","d">>, messages[j].body) )
               => messages[j].type = "debited"

\* a retained body with "credited" and "Debited", classified debited
C2_Witness ==
    /\ event = "fetchSuccess"
    /\ \E j \in 1..Len(messages) :
           /\ messages[j].body = BodyBoth
           /\ ~Occurs(debited, messages[j].body)
           /\ messages[j].type = "debited"

(***************************************************************************)
(* C3: the displayed list is the sub-sequence, in order, of the records    *)
(* that pass the direction filter and whose body or sender contains the    *)
(* search text up to letter case; an empty search text excludes nothing;   *)
(* and applying the two filters in the other order gives the same list.    *)
(***************************************************************************)
C3_Shown == filteredMessages(messages, filter, searchQuery)

C3_ViewIsIntersection ==
    LET pass == {i \in 1..Len(messages) :
                    /\ filter = "all" \/ messages[i].type = filter
                    /\ \/ OccursAnyCase(searchQuery, messages[i].body)
                       \/ OccursAnyCase(searchQuery, messages[i].sender)}
        byDirection == {i \in 1..Len(messages) : filter = "all" \/ messages[i].type = filter}
    IN  /\ Len(C3_Shown) = Cardinality(pass)
        /\ \A j \in 1..Len(C3_Shown) : C3_Shown[j] = messages[Nth(pass, j)]
        /\ searchQuery = <<>> => pass = byDirection
        /\ filterByType(filter, filterBySearch(searchQuery, messages)) = C3_Shown

\* two records, a direction filter and a search text that only a sender matches
C3_Witness ==
    /\ Len(messages) = 2
    /\ filter = "debited"
    /\ searchQuery = <<"b","a","n","k">>
    /\ Len(C3_Shown) = 1
    /\ C3_Shown[1].sender = Bank
    /\ messages[1].type = "debited" /\ messages[2].type = "debited"

C5_FetchOnlyWhenGranted ==
    [][inFlight' > inFlight => permissionGranted' = "true"]_vars

(***************************************************************************)
(* C6: at most one fetch is in flight at any time.                         *)
(***************************************************************************)
C6_NoOverlappingFetch == inFlight <= 1

(***************************************************************************)
(* C7: once a permission request has been answered with a denial, no       *)
(* further request is issued and the permission state stays denied (the    *)
(* component offers the user no reachable way to ask again).               *)
(***************************************************************************)
C7_NoRequestAfterDenial ==
    [][permissionGranted = "false" =>
          /\ pendingPermission' <= pendingPermission
          /\ permissionGranted' = "false"]_vars

(***************************************************************************)
(* C8: the success callback, given a list whose records all have a body    *)
(* but may lack an address or have an unparseable date_sent, raises        *)
(* nothing, replaces the collection by the records of the messages with a  *)
(* keyword, gives sender "Unknown" to a record without address, and        *)
(* clears the loading flag.                                                *)
(***************************************************************************)
C8_MalformedRecordDegrades ==
    (event = "fetchSuccess" /\ AllHaveBody(smsList)) =>
        /\ ~raised
        /\ ~loading
        /\ \A i \in KeywordPositions(smsList) :
               \E j \in 1..Len(messages) :
                   /\ messages[j].id = smsList[i]._id
                   /\ smsList[i].address = Undefined => messages[j].sender = Unknown
                   /\ smsList[i].address # Undefined => messages[j].sender = smsList[i].address
                   /\ ~smsList[i].date_sent.parseable =>
                          messages[j].date.nan /\ messages[j].timeAgo.n.nan

\* a record without address and with an unparseable date was classified
C8_Witness ==
    /\ event = "fetchSuccess"
    /\ ~raised
    /\ ~loading
    /\ \E i \in 1..Len(smsList) : \E j \in 1..Len(messages) :
           /\ smsList[i].address = Undefined
           /\ ~smsList[i].date_sent.parseable
           /\ messages[j].id = i
           /\ messages[j].sender = Unknown

(***************************************************************************)
(* C9: the amount of a record, position by position.                       *)
(***************************************************************************)
\* t is a number: digits, then groups of a comma and three digits, then
\* possibly a period and digits
IsNumeral(t) ==
    \E a \in 1..Len(t) : \E g \in 0..Len(t) :
        /\ a + 4 * g <= Len(t)
        /\ \A k \in 1..a : t[k] \in Digits
        /\ \A n \in 0..(g - 1) :
               /\ t[a + 4 * n + 1] = ","
               /\ \A k \in 2..4 : t[a + 4 * n + k] \in Digits
        /\ \/ a + 4 * g = Len(t)
           \/ /\ a + 4 * g + 2 <= Len(t)
              /\ t[a + 4 * g + 1] = "."
              /\ \A k \in (a + 4 * g + 2)..Len(t) : t[k] \in Digits

\* the longest number that starts at p
LongestNumeral(s, p) ==
    LET ends == {e \in p..Len(s) :
                    /\ \A k \in p..e : s[k] \in Digits \cup {",", "."}
                    /\ IsNumeral(SubSeq(s, p, e))}
    IN  SubSeq(s, p, CHOOSE e \in ends : \A o \in ends : o <= e)

\* where a number starts after a currency marker at i: the marker is INR or
\* Rs in any letter case, a period may follow the markers of periodAfter,
\* then at most one white-space character, then a digit
NumberStarts(s, i, periodAfter) ==
    {p \in (i + 2)..Len(s) :
        \E marker \in {INR, Rs} : \E dot \in {0, 1} : \E sp \in {0, 1} :
            /\ p = i + Len(marker) + dot + sp
            /\ \A k \in 1..Len(marker) : SameLetter(s[i + k - 1], marker[k])
            /\ dot = 1 => (marker \in periodAfter /\ s[i + Len(marker)] = ".")
            /\ sp = 1 => s[p - 1] \in WhiteSpace
            /\ s[p] \in Digits}

\* the amount the description gives for a body
DescribedAmount(s, periodAfter) ==
    LET places == {i \in 1..Len(s) : NumberStarts(s, i, periodAfter) # {}}
    IN  IF places = {} THEN NotAvailable
        ELSE LET i == CHOOSE x \in places : \A y \in places : x <= y
             IN  LongestNumeral(s, CHOOSE p \in NumberStarts(s, i, periodAfter) : TRUE)

(***************************************************************************)
(* C9 as stated: the amount of every record is the number after the first  *)
(* INR or Rs marker, a period being allowed after either marker, or "N/A". *)
(***************************************************************************)
C9_AmountPeriodAfterAnyMarker ==
    event = "fetchSuccess" =>
        \A j \in 1..Len(messages) :
            messages[j].amount = DescribedAmount(messages[j].body, {INR, Rs})

(***************************************************************************)
(* C9 as amended: the amount of every record is the number after the first *)
(* place where INR, or Rs with an optional period, in any letter case, is  *)
(* followed by at most one white-space character and a digit; it is "N/A"  *)
(* when the body has no such place.  "Rs. 1,234.50 debited" gives          *)
(* "1,234.50" and "Rs.500 debited from a/c" gives "500".                   *)
(***************************************************************************)
C9_AmountPeriodAfterRsOnly ==
    event = "fetchSuccess" =>
        \A j \in 1..Len(messages) :
            /\ messages[j].amount = DescribedAmount(messages[j].body, {Rs})
            /\ messages[j].body = BodyExample =>
                   messages[j].amount = <<"1",",","2","3","4",".","5","0">>
            /\ messages[j].body = BodyDebit => messages[j].amount = <<"5","0","0">>
            /\ (~OccursAnyCase(INR, messages[j].body) /\ ~OccursAnyCase(Rs, messages[j].body))
               => messages[j].amount = NotAvailable

\* the body "Rs. 1,234.50 debited" was classified
C9_Witness ==
    /\ event = "fetchSuccess"
    /\ Len(messages) = 1
    /\ messages[1].body = BodyExample
    /\ messages[1].amount = <<"1",",","2","3","4",".","5","0">>

(***************************************************************************)
(* C10: at most one timer is active; the timer that is active is the one   *)
(* the last run of the effect created; after the component is torn down    *)
(* none is left, so that no tick follows the teardown.                     *)
(***************************************************************************)
C10_AtMostOneTimer ==
    /\ Cardinality(intervals) <= 1
    /\ \A t \in intervals : t.id = cleanup /\ t.permissionGranted = effectDeps
    /\ ~mounted => intervals = {}
    /\ event = "tick" => mounted

\* the effect ran again after the permission was granted, then the
\* component was torn down
C10_Witness ==
    /\ ~mounted
    /\ effectDeps = "true"
    /\ intervals = {}

=============================================================================
